---------------------------- MODULE Spec2Model ----------------------------
(***************************************************************************)
(* Habit tracker backend: the fulfilment evaluator (routes/habits.ts), the *)
(* streak calculator (utils/streak.ts) and the /habits request handlers    *)
(* over the habits and habit_logs tables.                                  *)
(*                                                                         *)
(* Five specifications share the variables:                                *)
(*   SpecStreak  calls of calculateStreak / calculateLongestStreak on      *)
(*               bounded lists of date strings and bounded clock reads;    *)
(*   SpecFulfil  calls of isFulfilled on bounded habit rows and totals;    *)
(*   Spec        the request handlers, one request at a time;              *)
(*   SpecRace    check-ins interleaved at their awaits;                    *)
(*   SpecCreate  POST /habits over every bounded request body; DELETE.     *)
(***************************************************************************)
EXTENDS Integers, Sequences, FiniteSets, Bags, TLC

VARIABLES
    habits,      \* table habits: set of rows
    habit_logs,  \* table habit_logs: bag of rows (id and logged_at dropped)
    nextId,      \* next habit id the database hands out
    now,         \* the wall clock, as a UTC day number
    response,    \* the response of the last request
    history,     \* the last request: what was asked and what it found
    call,        \* SpecStreak / SpecFulfil: the arguments of the call
    result,      \* SpecStreak / SpecFulfil: what the call returned
    inflight     \* SpecRace: the check-in requests between two awaits

vars == <<habits, habit_logs, nextId, now, response, history, call, result,
          inflight>>

\* JavaScript null / SQL NULL: an optional value is <<>> or <<v>>.
NULL == <<>>

Some(v) == <<v>>

(***************************************************************************)
(* Bounds of the model.                                                    *)
(***************************************************************************)
\* Number of consecutive calendar days date strings are drawn from.
NumDays == 5

\* Longest list of completion dates handed to the streak functions.
MaxLen == 4

\* Goals of the habit rows handed to isFulfilled are 0, 3, ..., 3 * MaxGoal.
MaxGoal == 2

\* Habits ever created.
MaxHabits == 2

\* Midnights the clock passes.
MaxTicks == 1

\* Rows habit_logs holds at a time.
MaxLogs == 2

\* Check-in requests in flight at once.
MaxRequests == 2

(***************************************************************************)
(* Calendar: Date objects and 'YYYY-MM-DD' strings.                        *)
(*                                                                         *)
(* A Date is modelled by its UTC day number (days since 1970-01-01; the    *)
(* time of day never reaches a result, toDateStr slices it off).  A date   *)
(* string 'YYYY-MM-DD' is the triple <<year, month, day>> of its three     *)
(* fixed-width zero-padded fields.                                         *)
(***************************************************************************)
\* new Date(s + 'T00:00:00Z').getTime() / 86400000: the day number of a
\* date string (proleptic Gregorian calendar, as ECMAScript's MakeDay).
ParseDate(s) ==
    LET y   == IF s[2] <= 2 THEN s[1] - 1 ELSE s[1]
        era == y \div 400
        yoe == y - era * 400
        mp  == (s[2] + 9) % 12
        doy == (153 * mp + 2) \div 5 + s[3] - 1
        doe == yoe * 365 + yoe \div 4 - yoe \div 100 + doy
    IN  era * 146097 + doe - 719468

\* Date.prototype.toISOString().slice(0, 10): the date string of a Date.
toDateStr(d) ==
    LET z   == d + 719468
        era == z \div 146097
        doe == z - era * 146097
        yoe == (doe - doe \div 1460 + doe \div 36524 - doe \div 146096) \div 365
        doy == doe - (365 * yoe + yoe \div 4 - yoe \div 100)
        mp  == (5 * doy + 2) \div 153
        dd  == doy - (153 * mp + 2) \div 5 + 1
        mm  == IF mp < 10 THEN mp + 3 ELSE mp - 9
        yy  == yoe + era * 400 + (IF mm <= 2 THEN 1 ELSE 0)
    IN  <<yy, mm, dd>>

\* subDays: setUTCDate(getUTCDate() - n) on a copy.
subDays(d, n) == d - n

\* The first day of the window date strings are drawn from: it spans the
\* end of February of a leap year.
FirstDate == <<2024, 2, 27>>

FirstDay == ParseDate(FirstDate)

Days == FirstDay .. (FirstDay + NumDays - 1)

DateStrings == {toDateStr(d) : d \in Days}

\* String comparison a < b of two date strings (code-unit order of
\* fixed-width digit fields: year, then month, then day).
StrLess(a, b) ==
    \/ a[1] < b[1]
    \/ a[1] = b[1] /\ a[2] < b[2]
    \/ a[1] = b[1] /\ a[2] = b[2] /\ a[3] < b[3]

(***************************************************************************)
(* utils/streak.ts                                                         *)
(***************************************************************************)
\* new Set(completionDates)
SetOf(seq) == {seq[i] : i \in 1 .. Len(seq)}

RECURSIVE InsertSorted(_, _)
InsertSorted(x, sorted) ==
    IF sorted = <<>> THEN <<x>>
    ELSE IF StrLess(x, Head(sorted)) THEN <<x>> \o sorted
    ELSE <<Head(sorted)>> \o InsertSorted(x, Tail(sorted))

\* Faulty variant of SortDates: the list is scanned in the order given.
SortDatesNoSort(seq) == seq

\* [...completionDates].sort(): ascending by string comparison.
RECURSIVE SortDates(_)
SortDates(seq) ==
    IF seq = <<>> THEN <<>>
    ELSE InsertSorted(Head(seq), SortDates(Tail(seq)))

\* The while loop of calculateStreak: count while the cursor's date string
\* is in the set, stepping the cursor back one day.
RECURSIVE StreakWalk(_, _, _)
StreakWalk(dateSet, cursor, streak) ==
    IF toDateStr(cursor) \in dateSet
    THEN StreakWalk(dateSet, subDays(cursor, 1), streak + 1)
    ELSE streak

\* Faulty variant of calculateStreak: a chain that ended the day before
\* yesterday still counts.
calculateStreakGrace(completionDates, now1, now2) ==
    IF Len(completionDates) = 0 THEN 0
    ELSE
        LET dateSet == SetOf(completionDates)
            start   == CHOOSE k \in 0 .. 3 :
                           /\ k < 3 => toDateStr(subDays(now1, k)) \in dateSet
                           /\ \A j \in 0 .. (k - 1) :
                                  toDateStr(subDays(now1, j)) \notin dateSet
        IN  IF start = 3 THEN 0
            ELSE StreakWalk(dateSet, subDays(now1, start), 0)

\* calculateStreak(completionDates).  The function reads the clock twice:
\* now1 is the Date of the first new Date() (todayStr), now2 the Date of
\* the second (yesterdayStr = toDateStr(subDays(new Date(), 1))).
calculateStreak(completionDates, now1, now2) ==
    IF Len(completionDates) = 0 THEN 0
    ELSE
        LET dateSet      == SetOf(completionDates)
            todayStr     == toDateStr(now1)
            yesterdayStr == toDateStr(subDays(now2, 1))
        IN  IF todayStr \in dateSet
            THEN StreakWalk(dateSet, ParseDate(todayStr), 0)
            ELSE IF yesterdayStr \in dateSet
            THEN StreakWalk(dateSet, ParseDate(yesterdayStr), 0)
            ELSE 0

Max(a, b) == IF a >= b THEN a ELSE b

\* Faulty variant of LongestScan: the maximum is taken only when a run
\* breaks, so the last run is never counted.
RECURSIVE LongestScanLate(_, _, _, _)
LongestScanLate(sorted, i, current, longest) ==
    IF i > Len(sorted) THEN longest
    ELSE
        LET diffDays == ParseDate(sorted[i]) - ParseDate(sorted[i - 1])
        IN  IF diffDays = 1
            THEN LongestScanLate(sorted, i + 1, current + 1, longest)
            ELSE LongestScanLate(sorted, i + 1, 1, Max(longest, current))

\* Faulty variant of LongestScan: a repeated date extends the run.
RECURSIVE LongestScanNoGap(_, _, _, _)
LongestScanNoGap(sorted, i, current, longest) ==
    IF i > Len(sorted) THEN longest
    ELSE
        LET diffDays == ParseDate(sorted[i]) - ParseDate(sorted[i - 1])
        IN  IF diffDays <= 1
            THEN LongestScanNoGap(sorted, i + 1, current + 1,
                                  Max(longest, current + 1))
            ELSE LongestScanNoGap(sorted, i + 1, 1, longest)

\* The for loop of calculateLongestStreak from index i on.
RECURSIVE LongestScan(_, _, _, _)
LongestScan(sorted, i, current, longest) ==
    IF i > Len(sorted) THEN longest
    ELSE
        LET diffDays == ParseDate(sorted[i]) - ParseDate(sorted[i - 1])
        IN  IF diffDays = 1
            THEN LongestScan(sorted, i + 1, current + 1,
                             Max(longest, current + 1))
            ELSE LongestScan(sorted, i + 1, 1, longest)

calculateLongestStreak(completionDates) ==
    IF Len(completionDates) = 0 THEN 0
    ELSE LongestScan(SortDates(completionDates), 2, 1, 1)

(***************************************************************************)
(* JavaScript numbers.                                                     *)
(*                                                                         *)
(* A finite IEEE-754 double is modelled exactly, as a sign and a magnitude *)
(* counted in units of 2^-53; the magnitude is a natural number written    *)
(* in limbs of 15 bits, least significant first, without leading zero      *)
(* limbs (0 is <<>>).  Every double that is 0 or of magnitude in           *)
(* [1/2, 2^15) is such a value; the numbers of the model stay in that      *)
(* range.  -0 is not distinguished from 0.  NaN is the one value whose nan *)
(* field is TRUE.                                                          *)
(***************************************************************************)
LimbBase == 2^15

BigLimb(a, i) == IF i >= 1 /\ i <= Len(a) THEN a[i] ELSE 0

RECURSIVE BigNorm(_)
BigNorm(a) ==
    IF a # <<>> /\ a[Len(a)] = 0 THEN BigNorm(SubSeq(a, 1, Len(a) - 1)) ELSE a

RECURSIVE BigAddCarry(_, _, _)
BigAddCarry(a, b, carry) ==
    IF a = <<>> /\ b = <<>> THEN (IF carry = 0 THEN <<>> ELSE <<carry>>)
    ELSE
        LET t == BigLimb(a, 1) + BigLimb(b, 1) + carry
        IN  <<t % LimbBase>> \o
            BigAddCarry(IF a = <<>> THEN a ELSE Tail(a),
                        IF b = <<>> THEN b ELSE Tail(b), t \div LimbBase)

BigAdd(a, b) == BigAddCarry(a, b, 0)

RECURSIVE BigMulLimb(_, _, _)
BigMulLimb(a, k, carry) ==
    IF a = <<>> THEN (IF carry = 0 THEN <<>> ELSE <<carry>>)
    ELSE
        LET t == Head(a) * k + carry
        IN  <<t % LimbBase>> \o BigMulLimb(Tail(a), k, t \div LimbBase)

RECURSIVE BigMul(_, _)
BigMul(a, b) ==
    IF b = <<>> THEN <<>>
    ELSE
        LET rest == BigMul(a, Tail(b))
        IN  BigNorm(BigAdd(BigMulLimb(a, Head(b), 0),
                           IF rest = <<>> THEN <<>> ELSE <<0>> \o rest))

RECURSIVE BigCmpFrom(_, _, _)
BigCmpFrom(a, b, i) ==
    IF i = 0 THEN 0
    ELSE IF a[i] < b[i] THEN -1
    ELSE IF a[i] > b[i] THEN 1
    ELSE BigCmpFrom(a, b, i - 1)

\* -1, 0 or 1 as a < b, a = b or a > b.
BigCmp(a, b) ==
    IF Len(a) < Len(b) THEN -1
    ELSE IF Len(a) > Len(b) THEN 1
    ELSE BigCmpFrom(a, b, Len(a))

RECURSIVE LimbBitLen(_)
LimbBitLen(x) == IF x = 0 THEN 0 ELSE 1 + LimbBitLen(x \div 2)

BigBitLen(a) ==
    IF a = <<>> THEN 0 ELSE 15 * (Len(a) - 1) + LimbBitLen(a[Len(a)])

\* floor(a / 2^s)
BigShr(a, s) ==
    LET q == s \div 15
        t == s % 15
        n == Len(a) - q
    IN  IF n <= 0 THEN <<>>
        ELSE BigNorm([i \in 1 .. n |->
                 (BigLimb(a, i + q) \div 2^t)
                 + (BigLimb(a, i + q + 1) % 2^t) * 2^(15 - t)])

\* a * 2^s
BigShl(a, s) ==
    LET q == s \div 15
        t == s % 15
    IN  IF a = <<>> THEN <<>>
        ELSE BigNorm([i \in 1 .. (Len(a) + q + 1) |->
                 IF i <= q THEN 0
                 ELSE ((BigLimb(a, i - q) * 2^t) % LimbBase)
                      + (BigLimb(a, i - q - 1) \div 2^(15 - t))])

\* bit i of a (bit 0 the least significant)
BigBit(a, i) == (BigLimb(a, i \div 15 + 1) \div 2^(i % 15)) % 2

\* a / 2^s rounded to the nearest integer, ties to even (the IEEE-754
\* default rounding).
BigRoundShr(a, s) ==
    IF s = 0 THEN a
    ELSE
        LET q      == BigShr(a, s)
            half   == BigBit(a, s - 1) = 1
            sticky == BigShl(BigShr(a, s - 1), s - 1) # a
            odd    == BigBit(a, s) = 1
        IN  IF half /\ (sticky \/ odd) THEN BigAdd(q, <<1>>) ELSE q

\* The double of a small integer n, |n| < 2^15: |n| * 2^53 units.
FromInt(n) ==
    [nan |-> FALSE, neg |-> n < 0,
     mag |-> BigNorm(BigMulLimb(<<0, 0, 0, 256>>, IF n < 0 THEN -n ELSE n, 0))]

NaN == [nan |-> TRUE, neg |-> FALSE, mag |-> <<>>]

isNaN(x) == x.nan

\* -1, 0 or 1 as x < y, x = y or x > y, of two numbers other than NaN.
NumCmp(x, y) ==
    IF x.neg = y.neg
    THEN (IF x.neg THEN BigCmp(y.mag, x.mag) ELSE BigCmp(x.mag, y.mag))
    ELSE IF x.neg THEN -1 ELSE 1

\* x * y of two doubles: the exact product (in units of 2^-106) rounded to
\* 53 significant bits, ties to even.
NumMul(x, y) ==
    LET p    == BigMul(x.mag, y.mag)
        drop == BigBitLen(p) - 53
        m    == BigShl(BigRoundShr(p, drop), drop - 53)
    IN  IF x.nan \/ y.nan THEN NaN
        ELSE IF p = <<>> THEN [nan |-> FALSE, neg |-> FALSE, mag |-> <<>>]
        ELSE [nan |-> FALSE, neg |-> x.neg # y.neg, mag |-> m]

\* The comparison operators: false when an operand is NaN.
NumGeq(x, y) == ~x.nan /\ ~y.nan /\ NumCmp(x, y) >= 0

NumLeq(x, y) == ~x.nan /\ ~y.nan /\ NumCmp(x, y) <= 0

NumGt(x, y) == ~x.nan /\ ~y.nan /\ NumCmp(x, y) > 0

NumLt(x, y) == ~x.nan /\ ~y.nan /\ NumCmp(x, y) < 0

\* The literal 0.95: 0x1.e666666666666p-1.
Lit095 == [nan |-> FALSE, neg |-> FALSE, mag |-> <<26214, 19660, 6553, 243>>]

\* The literal 1.05: 0x1.0cccccccccccdp+0.
Lit105 == [nan |-> FALSE, neg |-> FALSE, mag |-> <<6554, 13107, 26214, 268>>]

(***************************************************************************)
(* JavaScript values of request bodies and of pg result rows.              *)
(*                                                                         *)
(* A string is either the decimal text of an integer (DecimalText: what pg *)
(* returns for a NUMERIC column, what a client sends as "3") or another    *)
(* literal (JsStr), of which only "" converts to a number.                 *)
(***************************************************************************)
JsUndefined == [t |-> "undefined"]

JsNull == [t |-> "null"]

JsNum(x) == [t |-> "number", num |-> x]

JsStr(s) == [t |-> "string", str |-> s]

DecimalText(n) == [t |-> "string", dec |-> n]

\* Number(v)
Number(v) ==
    IF v.t = "undefined" THEN NaN
    ELSE IF v.t = "null" THEN FromInt(0)
    ELSE IF v.t = "number" THEN v.num
    ELSE IF "dec" \in DOMAIN v THEN FromInt(v.dec)
    ELSE IF v.str = "" THEN FromInt(0)
    ELSE NaN

\* The NUMERIC a number parameter is stored as: pg sends the number's
\* decimal text.  The numbers the model stores are integers.
NumericOf(x) ==
    LET q == BigShr(x.mag, 53)
        n == IF q = <<>> THEN 0 ELSE q[1]
    IN  IF x.neg THEN -n ELSE n

(***************************************************************************)
(* routes/habits.ts: the fulfilment evaluator.                             *)
(*                                                                         *)
(* A habit row carries type, goal (NULL or the NUMERIC, an integer in the  *)
(* model, which pg returns as its decimal text) and direction (NULL,       *)
(* "gte" or "lte"); todayValue is NULL or a number.                        *)
(***************************************************************************)
\* Faulty variant of isFulfilled: a day without a total counts as total 0.
isFulfilledAbsentZero(habit, todayValue) ==
    LET value == IF todayValue = NULL THEN FromInt(0) ELSE todayValue[1]
    IN  IF habit.type = "boolean" THEN NumGt(value, FromInt(0))
        ELSE IF habit.goal = NULL THEN FALSE
        ELSE
            LET goal == Number(DecimalText(habit.goal[1]))
            IN  IF habit.type = "counter"
                THEN (IF habit.direction = Some("gte")
                      THEN NumGeq(value, goal) ELSE NumLeq(value, goal))
                ELSE IF habit.type = "gauge"
                THEN /\ NumGeq(value, NumMul(goal, Lit095))
                     /\ NumLeq(value, NumMul(goal, Lit105))
                ELSE FALSE

isFulfilled(habit, todayValue) ==
    IF habit.type = "boolean"
    THEN todayValue # NULL /\ NumGt(todayValue[1], FromInt(0))
    ELSE IF todayValue = NULL \/ habit.goal = NULL THEN FALSE
    ELSE
        LET goal == Number(DecimalText(habit.goal[1]))
        IN  IF habit.type = "counter"
            THEN (IF habit.direction = Some("gte")
                  THEN NumGeq(todayValue[1], goal)
                  ELSE NumLeq(todayValue[1], goal))
            ELSE IF habit.type = "gauge"
            THEN /\ NumGeq(todayValue[1], NumMul(goal, Lit095))
                 /\ NumLeq(todayValue[1], NumMul(goal, Lit105))
            ELSE FALSE

(***************************************************************************)
(* SpecStreak: the streak functions on bounded inputs.                     *)
(***************************************************************************)
RECURSIVE SeqsUpTo(_, _)
SeqsUpTo(S, n) ==
    IF n = 0 THEN {<<>>}
    ELSE LET shorter == SeqsUpTo(S, n - 1)
         IN  shorter \cup {Append(q, x) : q \in {r \in shorter : Len(r) = n - 1},
                                          x \in S}

\* The tables and the clock before any request.
InitTables ==
    /\ habits = {}
    /\ habit_logs = EmptyBag
    /\ nextId = 1
    /\ now = FirstDay
    /\ response = [op |-> "none", status |-> 0]
    /\ history = [op |-> "none", status |-> 0]
    /\ inflight = {}

\* The clock does not run backwards: the second read of a call is on the
\* UTC day of the first or, when midnight falls between them, the next.
StreakCalls ==
    {[completionDates |-> q, now1 |-> d, now2 |-> d + k] :
        q \in SeqsUpTo(DateStrings, MaxLen),
        d \in FirstDay .. (FirstDay + NumDays + 1),
        k \in {0, 1}}

InitStreak ==
    /\ InitTables
    /\ call \in StreakCalls
    /\ result = [fn |-> "none", value |-> 0]

CallCalculateStreak ==
    /\ result' = [fn |-> "calculateStreak",
                  value |-> calculateStreak(call.completionDates,
                                            call.now1, call.now2)]
    /\ UNCHANGED <<habits, habit_logs, nextId, now, response, history, call,
                 inflight>>

CallCalculateLongestStreak ==
    /\ result' = [fn |-> "calculateLongestStreak",
                  value |-> calculateLongestStreak(call.completionDates)]
    /\ UNCHANGED <<habits, habit_logs, nextId, now, response, history, call,
                 inflight>>

NextStreak == CallCalculateStreak \/ CallCalculateLongestStreak

SpecStreak == InitStreak /\ [][NextStreak]_vars

(***************************************************************************)
(* SpecFulfil: isFulfilled on bounded habit rows and totals.               *)
(***************************************************************************)
GoalValues == {3 * k : k \in 0 .. MaxGoal}

\* Habit rows as they may reach the evaluator, those a missing goal or
\* direction makes inconsistent included.
HabitConfigs ==
    [type : {"boolean", "counter", "gauge"},
     goal : {NULL} \cup {Some(g) : g \in GoalValues},
     direction : {NULL, Some("gte"), Some("lte")}]

\* Daily totals: small integers, and the doubles at the edges of the
\* gauge bands as the evaluator computes them.
TotalValues ==
    {FromInt(n) : n \in -1 .. (3 * MaxGoal + 1)}
    \cup {NumMul(FromInt(g), c) : g \in GoalValues, c \in {Lit095, Lit105}}

FulfilCalls ==
    [habit : HabitConfigs, todayValue : {NULL} \cup {Some(t) : t \in TotalValues}]

InitFulfil ==
    /\ InitTables
    /\ call \in FulfilCalls
    /\ result = [fn |-> "none", value |-> FALSE]

CallIsFulfilled ==
    /\ result' = [fn |-> "isFulfilled",
                  value |-> isFulfilled(call.habit, call.todayValue)]
    /\ UNCHANGED <<habits, habit_logs, nextId, now, response, history, call,
                 inflight>>

NextFulfil == CallIsFulfilled

SpecFulfil == InitFulfil /\ [][NextFulfil]_vars

(***************************************************************************)
(* The database: db/migrations/001_init.sql.                               *)
(*                                                                         *)
(* A habits row is [id, user_id, type, goal, direction]; the columns name, *)
(* color, unit and created_at are validated on the way in but read by no   *)
(* rule, and are left out (ids grow with created_at).  A habit_logs row is *)
(* [habit_id, completed_date, value], completed_date a DATE (day number).  *)
(***************************************************************************)
Users == {"u1", "u2"}

LastDay == FirstDay + MaxTicks

\* The CHECK constraints and enum types of table habits.
HabitRowValid(row) ==
    /\ row.type \in {"boolean", "counter", "gauge"}
    /\ row.type = "boolean" \/ row.goal # NULL
    /\ row.type # "counter" \/ row.direction # NULL
    /\ row.direction \in {NULL, Some("gte"), Some("lte")}

\* SUM(value) over the rows of a bag of habit_logs rows.
RECURSIVE SumValues(_, _)
SumValues(logs, rows) ==
    IF rows = {} THEN 0
    ELSE LET r == CHOOSE x \in rows : TRUE
         IN  r.value * CopiesIn(r, logs) + SumValues(logs, rows \ {r})

LogsOf(logs, habitId) == {r \in BagToSet(logs) : r.habit_id = habitId}

\* The rows of view habit_daily_totals for one habit (GROUP BY habit_id,
\* completed_date), completed_date as text.
DailyTotals(logs, habitId) ==
    {[completed_date |-> toDateStr(d),
      daily_total |-> SumValues(logs, {r \in LogsOf(logs, habitId) :
                                          r.completed_date = d})] :
        d \in {r.completed_date : r \in LogsOf(logs, habitId)}}

\* ORDER BY completed_date DESC
RECURSIVE OrderByDateDesc(_)
OrderByDateDesc(rows) ==
    IF rows = {} THEN <<>>
    ELSE LET top == CHOOSE x \in rows :
                        \A y \in rows \ {x} :
                            StrLess(y.completed_date, x.completed_date)
         IN  <<top>> \o OrderByDateDesc(rows \ {top})

\* Faulty variant of DeleteLogs: the habit's logs of every day go.
DeleteLogsAllDays(logs, habitId, date) ==
    [r \in BagToSet(logs) \ LogsOf(logs, habitId) |-> logs[r]]

\* DELETE FROM habit_logs WHERE habit_id = $1 AND completed_date = $2
DeleteLogs(logs, habitId, date) ==
    LET gone == {r \in BagToSet(logs) :
                    r.habit_id = habitId /\ r.completed_date = date}
    IN  [r \in BagToSet(logs) \ gone |-> logs[r]]

\* INSERT INTO habit_logs (habit_id, completed_date, value)
InsertLog(logs, habitId, date, value) ==
    logs (+) SetToBag({[habit_id |-> habitId, completed_date |-> date,
                        value |-> value]})

(***************************************************************************)
(* routes/habits.ts: helpers and handlers.                                 *)
(***************************************************************************)
\* todayUTC() when the clock reads day d.
todayUTC(d) == toDateStr(d)

\* The loop of getDailyData over the rows from index i on.
RECURSIVE DailyLoop(_, _, _, _, _)
DailyLoop(rows, i, habit, today, acc) ==
    IF i > Len(rows) THEN acc
    ELSE
        LET val == Number(DecimalText(rows[i].daily_total))
        IN  DailyLoop(rows, i + 1, habit, today,
                [todayValue  |-> IF rows[i].completed_date = today
                                 THEN Some(val) ELSE acc.todayValue,
                 completions |-> IF isFulfilled(habit, Some(val))
                                 THEN Append(acc.completions,
                                             rows[i].completed_date)
                                 ELSE acc.completions])

\* getDailyData(habitId, habit), the clock reading day d at todayUTC().
getDailyData(logs, habit, d) ==
    DailyLoop(OrderByDateDesc(DailyTotals(logs, habit.id)), 1, habit,
              todayUTC(d), [todayValue |-> NULL, completions |-> <<>>])

\* What a handler reads n times off the clock: the day it is on, then, from
\* some reading on, the next day if midnight passes meanwhile.
ClockReads(n) ==
    {[i \in 1 .. n |-> IF i <= k THEN now ELSE now + 1] :
        k \in (IF now < LastDay THEN 1 ELSE n) .. n}

\* What is kept of the last request for the claims that compare two
\* requests: of a check-in answered 200, who asked for which habit, the
\* clock's first and last reading and habit_logs as the request found it.
Remember(op, user, id, status, firstDay, lastDay) ==
    history' = IF op = "checkin" /\ status = 200
               THEN [op |-> op, status |-> status, user |-> user, id |-> id,
                     firstDay |-> firstDay, lastDay |-> lastDay,
                     logsBefore |-> habit_logs]
               ELSE [op |-> op, status |-> status]

\* Faulty variant of FindHabit: the habit is looked up by id alone.
FindHabitAnyUser(user, id) == {h \in habits : h.id = id}

\* SELECT ... FROM habits WHERE id = $1 AND user_id = $2
FindHabit(user, id) == {h \in habits : h.id = id /\ h.user_id = user}

\* The body's name may be missing, not a string, or a string of len
\* characters of which trimmed are left by trim().
BodyNames ==
    {JsUndefined, JsNum(FromInt(1)),
     [t |-> "string", len |-> 0, trimmed |-> 0],
     [t |-> "string", len |-> 2, trimmed |-> 0],
     [t |-> "string", len |-> 5, trimmed |-> 3],
     [t |-> "string", len |-> 101, trimmed |-> 101]}

BodyTypes ==
    {JsUndefined, JsNull, JsStr("boolean"), JsStr("counter"), JsStr("gauge"),
     JsStr("timer")}

BodyGoals ==
    {JsUndefined, JsNull, JsStr("abc"), JsStr(""), DecimalText(3),
     JsNum(FromInt(-1)), JsNum(FromInt(0)), JsNum(FromInt(3))}

BodyDirections ==
    {JsUndefined, JsNull, JsStr("gte"), JsStr("lte"), JsStr("eq")}

HabitBodies ==
    [name : BodyNames, type : BodyTypes, goal : BodyGoals,
     direction : BodyDirections]

\* The bodies Spec posts: one per kind of habit, and one that is rejected.
SampleBodies ==
    {[name |-> [t |-> "string", len |-> 5, trimmed |-> 3], type |-> b[1],
      goal |-> b[2], direction |-> b[3]] :
        b \in {<<JsUndefined, JsUndefined, JsUndefined>>,
               <<JsStr("counter"), JsNum(FromInt(1)), JsStr("gte")>>,
               <<JsStr("gauge"), DecimalText(1), JsUndefined>>,
               <<JsStr("counter"), JsNum(FromInt(1)), JsUndefined>>}}

\* Faulty variant of GoalRefused: a negative goal passes.
GoalRefusedNoSign(type, goal) ==
    /\ type # JsStr("boolean")
    /\ \/ goal = JsNull
       \/ goal = JsUndefined
       \/ isNaN(Number(goal))

\* POST /habits, lines 152-157: the goal of a counter or gauge is refused.
GoalRefused(type, goal) ==
    /\ type # JsStr("boolean")
    /\ \/ goal = JsNull
       \/ goal = JsUndefined
       \/ isNaN(Number(goal))
       \/ NumLt(Number(goal), FromInt(0))

\* POST /habits, lines 128-183: NULL when a validation answers 400, else the
\* parameters of the INSERT.
PostHabitParams(body) ==
    LET name      == body.name
        type      == IF body.type = JsUndefined THEN JsStr("boolean")
                     ELSE body.type
        goal      == IF body.goal = JsUndefined THEN JsNull ELSE body.goal
        direction == IF body.direction = JsUndefined THEN JsNull
                     ELSE body.direction
    IN  IF name.t # "string" THEN NULL
        ELSE IF name.len = 0 \/ name.trimmed = 0 THEN NULL
        ELSE IF name.trimmed > 100 THEN NULL
        ELSE IF type \notin {JsStr("boolean"), JsStr("counter"), JsStr("gauge")}
        THEN NULL
        ELSE IF GoalRefused(type, goal) THEN NULL
        ELSE IF /\ type = JsStr("counter")
                /\ direction \notin {JsStr("gte"), JsStr("lte")}
        THEN NULL
        ELSE Some([type      |-> type.str,
                   goal      |-> IF type # JsStr("boolean")
                                 THEN Some(NumericOf(Number(goal))) ELSE NULL,
                   direction |-> IF type = JsStr("counter")
                                 THEN Some(direction.str) ELSE NULL])

\* POST /habits
CreateHabit(user, body) ==
    LET params == PostHabitParams(body)
        row    == [id |-> nextId, user_id |-> user, type |-> params[1].type,
                   goal |-> params[1].goal, direction |-> params[1].direction]
    IN  /\ nextId <= MaxHabits
        /\ IF params = NULL
           THEN /\ response' = [op |-> "createHabit", status |-> 400]
                /\ Remember("createHabit", user, 0, 400, now, now)
                /\ UNCHANGED <<habits, nextId>>
           ELSE IF ~HabitRowValid(row)
           THEN /\ response' = [op |-> "createHabit", status |-> 500]
                /\ Remember("createHabit", user, 0, 500, now, now)
                /\ UNCHANGED <<habits, nextId>>
           ELSE /\ habits' = habits \cup {row}
                /\ nextId' = nextId + 1
                /\ response' =
                       [op |-> "createHabit", status |-> 201,
                        habit |-> [id |-> row.id, type |-> row.type,
                                   goal |-> IF row.goal # NULL
                                            THEN Some(Number(DecimalText(row.goal[1])))
                                            ELSE NULL,
                                   direction |-> row.direction,
                                   streak |-> 0, longestStreak |-> 0,
                                   completions |-> <<>>, todayValue |-> NULL]]
                /\ Remember("createHabit", user, row.id, 201, now, now)
        /\ UNCHANGED <<habit_logs, now, call, result, inflight>>

\* DELETE /habits/:id (habit_logs rows go with the habit: ON DELETE CASCADE)
DeleteHabit(user, id) ==
    LET found == FindHabit(user, id)
    IN  /\ IF found = {}
           THEN /\ response' = [op |-> "deleteHabit", status |-> 404]
                /\ Remember("deleteHabit", user, id, 404, now, now)
                /\ UNCHANGED <<habits, habit_logs>>
           ELSE /\ habits' = habits \ found
                /\ habit_logs' = [r \in BagToSet(habit_logs) \ LogsOf(habit_logs, id)
                                     |-> habit_logs[r]]
                /\ response' = [op |-> "deleteHabit", status |-> 200]
                /\ Remember("deleteHabit", user, id, 200, now, now)
        /\ UNCHANGED <<nextId, now, call, result, inflight>>

\* The body of a 200 response of /checkin and /log.
Progress(completed, logs, habit, reads) ==
    LET data == getDailyData(logs, habit, reads[2])
    IN  [completed     |-> completed,
         streak        |-> calculateStreak(data.completions, reads[3], reads[4]),
         longestStreak |-> calculateLongestStreak(data.completions),
         completions   |-> data.completions,
         todayValue    |-> data.todayValue]

\* POST /habits/:id/checkin.  The clock is read at line 240 (today), in
\* getDailyData and twice in calculateStreak.
Checkin(user, id) ==
    LET found == FindHabit(user, id)
        habit == CHOOSE h \in found : TRUE
    IN  /\ IF found = {}
           THEN /\ response' = [op |-> "checkin", status |-> 404]
                /\ Remember("checkin", user, id, 404, now, now)
                /\ UNCHANGED <<habit_logs, now>>
           ELSE IF habit.type # "boolean"
           THEN /\ response' = [op |-> "checkin", status |-> 400]
                /\ Remember("checkin", user, id, 400, now, now)
                /\ UNCHANGED <<habit_logs, now>>
           ELSE \E reads \in ClockReads(4) :
                LET today    == ParseDate(todayUTC(reads[1]))
                    existing == {r \in LogsOf(habit_logs, habit.id) :
                                    r.completed_date = today}
                    logs     == IF existing # {}
                                THEN DeleteLogs(habit_logs, habit.id, today)
                                ELSE InsertLog(habit_logs, habit.id, today, 1)
                IN  /\ BagCardinality(logs) <= MaxLogs
                    /\ habit_logs' = logs
                    /\ now' = reads[4]
                    /\ response' = [op |-> "checkin", status |-> 200,
                                    body |-> Progress(existing = {}, logs,
                                                      habit, reads)]
                    /\ Remember("checkin", user, id, 200, reads[1], reads[4])
        /\ UNCHANGED <<habits, nextId, call, result, inflight>>

LogValues ==
    {JsUndefined, JsStr("abc"), JsNum(FromInt(0)), JsNum(FromInt(-1)),
     JsNum(FromInt(1))}

\* Faulty variant of LogError: the value 0 passes.
LogErrorZeroAllowed(habit, rawValue) ==
    IF habit.type = "boolean"
    THEN Some("Use /checkin for boolean habits")
    ELSE IF rawValue = JsUndefined \/ rawValue = JsNull
            \/ isNaN(Number(rawValue))
    THEN Some("value must be a number")
    ELSE NULL

\* POST /habits/:id/log, lines 294-309: the error of the 400 response, NULL
\* when the request passes.
LogError(habit, rawValue) ==
    IF habit.type = "boolean"
    THEN Some("Use /checkin for boolean habits")
    ELSE IF rawValue = JsUndefined \/ rawValue = JsNull
            \/ isNaN(Number(rawValue))
    THEN Some("value must be a number")
    ELSE IF NumCmp(Number(rawValue), FromInt(0)) = 0
    THEN Some("value must not be zero")
    ELSE NULL

\* POST /habits/:id/log
Log(user, id, rawValue) ==
    LET found == FindHabit(user, id)
        habit == CHOOSE h \in found : TRUE
        value == Number(rawValue)
    IN  /\ IF found = {}
           THEN /\ response' = [op |-> "log", status |-> 404]
                /\ Remember("log", user, id, 404, now, now)
                /\ UNCHANGED <<habit_logs, now>>
           ELSE IF LogError(habit, rawValue) # NULL
           THEN /\ response' = [op |-> "log", status |-> 400,
                                error |-> LogError(habit, rawValue)[1]]
                /\ Remember("log", user, id, 400, now, now)
                /\ UNCHANGED <<habit_logs, now>>
           ELSE \E reads \in ClockReads(4) :
                LET today == ParseDate(todayUTC(reads[1]))
                    logs  == InsertLog(habit_logs, habit.id, today,
                                       NumericOf(value))
                    body  == Progress(FALSE, logs, habit, reads)
                IN  /\ BagCardinality(logs) <= MaxLogs
                    /\ habit_logs' = logs
                    /\ now' = reads[4]
                    /\ response' =
                           [op |-> "log", status |-> 200,
                            body |-> [body EXCEPT !.completed =
                                         isFulfilled(habit, body.todayValue)]]
                    /\ Remember("log", user, id, 200, reads[1], reads[4])
        /\ UNCHANGED <<habits, nextId, call, result, inflight>>

\* ORDER BY created_at ASC: ids grow with created_at.
RECURSIVE OrderById(_)
OrderById(rows) ==
    IF rows = {} THEN <<>>
    ELSE LET first == CHOOSE x \in rows : \A y \in rows : x.id <= y.id
         IN  <<first>> \o OrderById(rows \ {first})

\* GET /habits.  Each habit's getDailyData and calculateStreak read the
\* clock three times; midnight passes at most once meanwhile.
GetHabits(user) ==
    LET rows == OrderById({h \in habits : h.user_id = user})
    IN  /\ \E reads \in [1 .. Len(rows) -> ClockReads(3)] :
            /\ Cardinality({i \in 1 .. Len(rows) :
                               reads[i][1] # reads[i][3]}) <= 1
            /\ response' =
                   [op |-> "getHabits", status |-> 200,
                    habits |->
                        [i \in 1 .. Len(rows) |->
                            LET data == getDailyData(habit_logs, rows[i],
                                                     reads[i][1])
                            IN  [id |-> rows[i].id,
                                 type |-> rows[i].type,
                                 goal |-> IF rows[i].goal # NULL
                                          THEN Some(Number(DecimalText(rows[i].goal[1])))
                                          ELSE NULL,
                                 direction |-> rows[i].direction,
                                 streak |-> calculateStreak(data.completions,
                                                reads[i][2], reads[i][3]),
                                 longestStreak |->
                                     calculateLongestStreak(data.completions),
                                 completions |-> data.completions,
                                 todayValue |-> data.todayValue]]]
            /\ now' = IF \E i \in 1 .. Len(rows) : reads[i][3] # now
                      THEN now + 1 ELSE now
            /\ Remember("getHabits", user, 0, 200, now, now')
        /\ UNCHANGED <<habits, habit_logs, nextId, call, result, inflight>>

\* Midnight UTC passes between two requests.
Tick ==
    /\ now < LastDay
    /\ now' = now + 1
    /\ UNCHANGED <<habits, habit_logs, nextId, response, history, call, result, inflight>>

Init ==
    /\ InitTables
    /\ call = [fn |-> "none"]
    /\ result = [fn |-> "none"]

Next ==
    \/ \E u \in Users, b \in SampleBodies : CreateHabit(u, b)
    \/ \E u \in Users, id \in 1 .. MaxHabits : DeleteHabit(u, id)
    \/ \E u \in Users, id \in 1 .. MaxHabits : Checkin(u, id)
    \/ \E u \in Users, id \in 1 .. MaxHabits, v \in LogValues : Log(u, id, v)
    \/ \E u \in Users : GetHabits(u)
    \/ Tick

Spec == Init /\ [][Next]_vars

(***************************************************************************)
(* SpecRace: POST /habits/:id/checkin as the steps its awaits cut it into. *)
(* Each await pool.query is a statement the database runs on its own;      *)
(* statements of other requests may run between two of them.  A request in *)
(* flight is [rid, habit, today, pc, existing].                            *)
(***************************************************************************)
\* Lines 224-240: the habit is looked up; then the type is checked and
\* todayUTC() read.
CheckinFind(rid, user, id) ==
    LET found == FindHabit(user, id)
        habit == CHOOSE h \in found : TRUE
    IN  /\ \A q \in inflight : q.rid # rid
        /\ IF found = {}
           THEN /\ response' = [op |-> "checkin", status |-> 404]
                /\ history' = [op |-> "checkin", status |-> 404]
                /\ UNCHANGED inflight
           ELSE IF habit.type # "boolean"
           THEN /\ response' = [op |-> "checkin", status |-> 400]
                /\ history' = [op |-> "checkin", status |-> 400]
                /\ UNCHANGED inflight
           ELSE /\ inflight' = inflight \cup
                       {[rid |-> rid, habit |-> habit,
                         today |-> ParseDate(todayUTC(now)),
                         pc |-> "select", existing |-> FALSE]}
                /\ UNCHANGED <<response, history>>
        /\ UNCHANGED <<habits, habit_logs, nextId, now, call, result>>

\* Lines 243-246: SELECT id FROM habit_logs WHERE habit_id = $1 AND
\* completed_date = $2.
CheckinSelect(rid) ==
    \E q \in inflight :
        /\ q.rid = rid
        /\ q.pc = "select"
        /\ inflight' = (inflight \ {q}) \cup
               {[q EXCEPT !.pc = "write",
                          !.existing =
                              \E r \in LogsOf(habit_logs, q.habit.id) :
                                  r.completed_date = q.today]}
        /\ UNCHANGED <<habits, habit_logs, nextId, now, response, history,
                       call, result>>

\* Lines 249-263: the DELETE or the INSERT the SELECT's answer chose.
CheckinWrite(rid) ==
    \E q \in inflight :
        LET logs == IF q.existing
                    THEN DeleteLogs(habit_logs, q.habit.id, q.today)
                    ELSE InsertLog(habit_logs, q.habit.id, q.today, 1)
        IN  /\ q.rid = rid
            /\ q.pc = "write"
            /\ BagCardinality(logs) <= MaxLogs
            /\ habit_logs' = logs
            /\ inflight' = (inflight \ {q}) \cup {[q EXCEPT !.pc = "respond"]}
            /\ UNCHANGED <<habits, nextId, now, response, history, call,
                           result>>

\* Lines 265-273: getDailyData's SELECT, then its todayUTC(), the two clock
\* reads of calculateStreak and the response.
CheckinRespond(rid) ==
    \E q \in inflight, reads \in ClockReads(3) :
        /\ q.rid = rid
        /\ q.pc = "respond"
        /\ response' = [op |-> "checkin", status |-> 200,
                        body |-> Progress(~q.existing, habit_logs, q.habit,
                                          <<q.today>> \o reads)]
        /\ history' = [op |-> "checkin", status |-> 200]
        /\ now' = reads[3]
        /\ inflight' = inflight \ {q}
        /\ UNCHANGED <<habits, habit_logs, nextId, call, result>>

\* Midnight UTC passes while requests are in flight.
TickRace ==
    /\ now < LastDay
    /\ now' = now + 1
    /\ UNCHANGED <<habits, habit_logs, nextId, response, history, call,
                   result, inflight>>

\* The body that creates a boolean habit.
BooleanBodies == {b \in SampleBodies : b.type = JsUndefined}

NextRace ==
    \/ \E u \in Users, b \in BooleanBodies : CreateHabit(u, b)
    \/ \E rid \in 1 .. MaxRequests, u \in Users, id \in 1 .. MaxHabits :
           CheckinFind(rid, u, id)
    \/ \E rid \in 1 .. MaxRequests : CheckinSelect(rid)
    \/ \E rid \in 1 .. MaxRequests : CheckinWrite(rid)
    \/ \E rid \in 1 .. MaxRequests : CheckinRespond(rid)
    \/ TickRace

SpecRace == Init /\ [][NextRace]_vars

(***************************************************************************)
(* SpecCreate: habits created from every body of HabitBodies, and deleted. *)
(***************************************************************************)
NextCreate ==
    \/ \E u \in Users, b \in HabitBodies : CreateHabit(u, b)
    \/ \E u \in Users, id \in 1 .. MaxHabits : DeleteHabit(u, id)

SpecCreate == Init /\ [][NextCreate]_vars

(***************************************************************************)
(* Reference notions the claims are stated with.                           *)
(***************************************************************************)
\* The calendar days (day numbers) of a list of date strings.
DaySet(dates) == {ParseDate(s) : s \in SetOf(dates)}

\* Length of the maximal run of consecutive days of S that ends at day a
\* (0 when a is not in S).
RunEndingAt(S, a) ==
    CHOOSE k \in 0 .. Cardinality(S) :
        /\ \A i \in 0 .. (k - 1) : (a - i) \in S
        /\ (a - k) \notin S

\* Length of the longest run of consecutive days of S.
LongestRun(S) ==
    IF S = {} THEN 0
    ELSE CHOOSE m \in 1 .. Cardinality(S) :
            /\ \E a \in S : RunEndingAt(S, a) = m
            /\ \A a \in S : RunEndingAt(S, a) <= m

NoDuplicates(q) == Cardinality(SetOf(q)) = Len(q)

\* q without the repetitions of its elements.
RECURSIVE Dedup(_)
Dedup(q) ==
    IF q = <<>> THEN <<>>
    ELSE LET front == Dedup(SubSeq(q, 1, Len(q) - 1))
         IN  IF q[Len(q)] \in SetOf(front) THEN front
             ELSE Append(front, q[Len(q)])

\* The exact value of double t lies in [0.95 * g, 1.05 * g], g an integer
\* >= 0: 19 * g <= 20 * t <= 21 * g in exact arithmetic.
WithinFivePercent(t, g) ==
    /\ ~t.neg
    /\ BigCmp(BigMulLimb(FromInt(g).mag, 19, 0), BigMulLimb(t.mag, 20, 0)) <= 0
    /\ BigCmp(BigMulLimb(t.mag, 20, 0), BigMulLimb(FromInt(g).mag, 21, 0)) <= 0

(***************************************************************************)
(* Claims on the streak calculator (SpecStreak).                           *)
(***************************************************************************)
\* C1: with today the UTC day at one of the clock reads of the call: if
\* today is in the collection calculateStreak returns the length of the
\* maximal run of consecutive present days ending today; if today is absent
\* and yesterday present, the length of the run ending yesterday.
C1_StreakIsRunAtAnchor ==
    result.fn = "calculateStreak" =>
        LET S == DaySet(call.completionDates)
        IN  \E today \in {call.now1, call.now2} :
                /\ today \in S => result.value = RunEndingAt(S, today)
                /\ (today \notin S /\ (today - 1) \in S)
                       => result.value = RunEndingAt(S, today - 1)

\* C1 restricted to calls during which the UTC day does not change: there
\* the statement of C1 holds.
C1_WithinOneDay ==
    (result.fn = "calculateStreak" /\ call.now1 = call.now2) =>
        LET S     == DaySet(call.completionDates)
            today == call.now1
        IN  /\ today \in S => result.value = RunEndingAt(S, today)
            /\ (today \notin S /\ (today - 1) \in S)
                   => result.value = RunEndingAt(S, today - 1)

\* C2: for a list of distinct dates, in whatever order, calculateLongestStreak
\* returns the length of the longest run of consecutive calendar days among
\* them: 0 for the empty list, at least 1 otherwise.
C2_LongestIsLongestRun ==
    (result.fn = "calculateLongestStreak" /\ NoDuplicates(call.completionDates))
        => /\ result.value = LongestRun(DaySet(call.completionDates))
           /\ (call.completionDates = <<>>) <=> (result.value = 0)

\* C2 witness: four distinct dates, not in ascending order, with a gap:
\* a run of three and a single day.
C2_Witness ==
    /\ result.fn = "calculateLongestStreak"
    /\ NoDuplicates(call.completionDates)
    /\ Len(call.completionDates) = 4
    /\ SortDates(call.completionDates) # call.completionDates
    /\ result.value = 3

\* C3: when neither today nor yesterday is in the collection, whichever
\* day of the call is taken for today, calculateStreak returns 0 whatever
\* older dates there are; both functions return 0 on the empty list.
C3_BrokenChainIsZero ==
    /\ result.fn = "calculateStreak" =>
           \A today \in {call.now1, call.now2} :
               ({today, today - 1} \cap DaySet(call.completionDates) = {})
                   => result.value = 0
    /\ (result.fn = "calculateLongestStreak" /\ call.completionDates = <<>>)
           => result.value = 0

\* C3 witness: older history (two consecutive days up to the day before
\* yesterday), today and yesterday absent, result 0.
C3_Witness ==
    /\ result.fn = "calculateStreak"
    /\ {call.now1 - 2, call.now1 - 3} \subseteq DaySet(call.completionDates)
    /\ {call.now1, call.now1 - 1} \cap DaySet(call.completionDates) = {}
    /\ result.value = 0

\* The anchor calculateStreak counts back from.
Anchor(c) ==
    IF toDateStr(c.now1) \in SetOf(c.completionDates)
    THEN c.now1 ELSE c.now2 - 1

\* C7: for distinct dates, when calculateStreak picks an anchor in the set,
\* calculateLongestStreak of the same list is at least the length of the
\* run ending at that anchor and at least calculateStreak's result.
C7_LongestAtLeastCurrent ==
    (/\ result.fn = "calculateStreak"
     /\ NoDuplicates(call.completionDates)
     /\ Anchor(call) \in DaySet(call.completionDates))
        => /\ calculateLongestStreak(call.completionDates)
                  >= RunEndingAt(DaySet(call.completionDates), Anchor(call))
           /\ calculateLongestStreak(call.completionDates) >= result.value

\* C7 witness: a current streak of three, the longest run of the list.
C7_Witness ==
    /\ result.fn = "calculateStreak"
    /\ NoDuplicates(call.completionDates)
    /\ Anchor(call) \in DaySet(call.completionDates)
    /\ result.value = 3
    /\ calculateLongestStreak(call.completionDates) = 3

\* C8: on a list with duplicate dates calculateLongestStreak returns (so
\* terminates with) a value no greater than the longest run of consecutive
\* days among the distinct dates, and calculateStreak returns what it
\* returns on the list without the duplicates.
C8_DuplicatesSafe ==
    ~NoDuplicates(call.completionDates) =>
        /\ result.fn = "calculateLongestStreak" =>
               /\ result.value >= 1
               /\ result.value <= LongestRun(DaySet(call.completionDates))
        /\ result.fn = "calculateStreak" =>
               result.value = calculateStreak(Dedup(call.completionDates),
                                              call.now1, call.now2)

\* C8 witness: a duplicate inside a run of three distinct days; the scan
\* restarts at the duplicate and reports 2.
C8_Witness ==
    /\ result.fn = "calculateLongestStreak"
    /\ ~NoDuplicates(call.completionDates)
    /\ LongestRun(DaySet(call.completionDates)) = 3
    /\ result.value = 2

(***************************************************************************)
(* Claims on the fulfilment evaluator (SpecFulfil).                        *)
(***************************************************************************)
\* C4: for a counter habit with a goal and a direction, isFulfilled is true
\* iff the total is present and (gte and total >= goal) or (lte and
\* total <= goal); an absent total is never fulfilled.
C4_CounterRule ==
    (/\ result.fn = "isFulfilled"
     /\ call.habit.type = "counter"
     /\ call.habit.goal # NULL
     /\ call.habit.direction # NULL)
        => result.value =
             (/\ call.todayValue # NULL
              /\ \/ /\ call.habit.direction = Some("gte")
                    /\ NumCmp(call.todayValue[1], FromInt(call.habit.goal[1])) >= 0
                 \/ /\ call.habit.direction = Some("lte")
                    /\ NumCmp(call.todayValue[1], FromInt(call.habit.goal[1])) <= 0)

\* C4 witness: an lte counter with goal 0 and no total today: not fulfilled.
C4_Witness ==
    /\ result.fn = "isFulfilled"
    /\ call.habit = [type |-> "counter", goal |-> Some(0), direction |-> Some("lte")]
    /\ call.todayValue = NULL
    /\ result.value = FALSE

\* C5: for a gauge habit with goal g >= 0, isFulfilled is true iff the total
\* is present and 0.95 * g <= total <= 1.05 * g.
C5_GaugeBand ==
    (/\ result.fn = "isFulfilled"
     /\ call.habit.type = "gauge"
     /\ call.habit.goal # NULL)
        => result.value =
             (/\ call.todayValue # NULL
              /\ WithinFivePercent(call.todayValue[1], call.habit.goal[1]))

\* C6: a counter or gauge row without goal, or a counter row without
\* direction, is never fulfilled, whatever the total.
C6_MisconfiguredNeverFulfilled ==
    (/\ result.fn = "isFulfilled"
     /\ \/ call.habit.type \in {"counter", "gauge"} /\ call.habit.goal = NULL
        \/ call.habit.type = "counter" /\ call.habit.direction = NULL)
        => result.value = FALSE

(***************************************************************************)
(* Claims on the request handlers.                                         *)
(***************************************************************************)
\* C9 (SpecCreate): after any POST /habits requests every stored habit has
\* goal NULL if boolean, a non-null goal >= 0 if counter or gauge, and a
\* direction gte or lte if counter; a request answered 400 stores nothing.
C9_StoredHabitsConsistent ==
    /\ [](\A h \in habits :
            /\ h.type \in {"boolean", "counter", "gauge"}
            /\ h.type = "boolean" => h.goal = NULL
            /\ h.type \in {"counter", "gauge"} => (h.goal # NULL /\ h.goal[1] >= 0)
            /\ h.type = "counter" => h.direction \in {Some("gte"), Some("lte")})
    /\ [][(response'.op = "createHabit" /\ response'.status = 400)
              => UNCHANGED <<habits, habit_logs, nextId>>]_vars

\* C9 witness: a counter with goal 0 is stored, and the last request, a
\* POST /habits, was answered 400.
C9_Witness ==
    /\ \E h \in habits : h.type = "counter" /\ h.direction = Some("lte")
                         /\ h.goal = Some(0)
    /\ response.op = "createHabit"
    /\ response.status = 400

\* The rows of habit_logs other than those of habit id on day date are
\* the same in logs1 and logs2.
SameElsewhere(logs1, logs2, id, date) ==
    \A r \in BagToSet(logs1) \cup BagToSet(logs2) :
        (r.habit_id # id \/ r.completed_date # date)
            => CopiesIn(r, logs1) = CopiesIn(r, logs2)

LogsOn(logs, id, date) ==
    {r \in BagToSet(logs) : r.habit_id = id /\ r.completed_date = date}

\* C10 (Spec): a check-in on a boolean habit answered within one UTC day
\* toggles today's completion: without a log of today it inserts one of
\* value 1 and answers completed, today among the completions, todayValue 1;
\* with one it deletes today's logs and answers not completed, today not
\* among the completions, todayValue null.  The logs of other days and
\* habits stay as they are, and a second check-in straight after the first,
\* on the same day, leaves habit_logs as the first found it.
C10_CheckinToggles ==
    [][\A u \in Users, id \in 1 .. MaxHabits :
          (/\ Checkin(u, id)
           /\ response'.status = 200
           /\ history'.firstDay = history'.lastDay)
          => LET today == history'.firstDay
                 body  == response'.body
             IN  /\ \E h \in habits : h.id = id /\ h.user_id = u
                                      /\ h.type = "boolean"
                 /\ SameElsewhere(habit_logs, habit_logs', id, today)
                 /\ IF LogsOn(habit_logs, id, today) = {}
                    THEN /\ habit_logs' =
                              habit_logs (+) SetToBag({[habit_id |-> id,
                                   completed_date |-> today, value |-> 1]})
                         /\ body.completed
                         /\ toDateStr(today) \in SetOf(body.completions)
                         /\ body.todayValue = Some(FromInt(1))
                    ELSE /\ LogsOn(habit_logs', id, today) = {}
                         /\ ~body.completed
                         /\ toDateStr(today) \notin SetOf(body.completions)
                         /\ body.todayValue = NULL
                 /\ (/\ history.op = "checkin"
                     /\ history.status = 200
                     /\ history.user = u
                     /\ history.id = id
                     /\ history.firstDay = today)
                        => habit_logs' = history.logsBefore]_vars

\* C10 witness: the second of two check-ins in a row on one day has
\* switched today off again; the log of the day before is still there.
C10_Witness ==
    /\ response.op = "checkin"
    /\ response.status = 200
    /\ ~response.body.completed
    /\ history.firstDay = history.lastDay
    /\ LogsOn(history.logsBefore, history.id, history.firstDay) # {}
    /\ LogsOn(habit_logs, history.id, history.firstDay - 1) # {}
    /\ response.body.streak = 1

\* The rows of habit_logs of habit id on the day the view names date.
LogsOnDate(id, date) ==
    {r \in LogsOf(habit_logs, id) : toDateStr(r.completed_date) = date}

\* C11 as stated (Spec): a (habit, date) pair is in habit_daily_totals only
\* if a log entry exists for it, and no daily total is 0 unless a log of
\* value 0 was recorded.
C11_NoZeroTotal ==
    \A id \in 1 .. MaxHabits :
        \A row \in DailyTotals(habit_logs, id) :
            /\ LogsOnDate(id, row.completed_date) # {}
            /\ row.daily_total = 0 =>
                   \E r \in LogsOnDate(id, row.completed_date) : r.value = 0

\* C11 amended (Spec): a (habit, date) pair is in habit_daily_totals only if
\* a log entry exists for it; no log entry has value 0, so a daily total is
\* 0 only where entries of both signs cancel; and a /log request answered
\* 400 inserts nothing.
C11_TotalsComeFromNonZeroLogs ==
    /\ [](\A id \in 1 .. MaxHabits :
            /\ \A r \in LogsOf(habit_logs, id) : r.value # 0
            /\ \A row \in DailyTotals(habit_logs, id) :
                   /\ LogsOnDate(id, row.completed_date) # {}
                   /\ row.daily_total = 0 =>
                          /\ \E r \in LogsOnDate(id, row.completed_date) :
                                 r.value > 0
                          /\ \E r \in LogsOnDate(id, row.completed_date) :
                                 r.value < 0)
    /\ [][(response'.op = "log" /\ response'.status = 400)
              => UNCHANGED habit_logs]_vars

\* C11 witness: /log has just refused the value 0, on a day whose total is
\* already 0 with two entries logged.
C11_Witness ==
    /\ response.op = "log"
    /\ response.status = 400
    /\ response.error = "value must not be zero"
    /\ \E id \in 1 .. MaxHabits :
           \E row \in DailyTotals(habit_logs, id) :
               /\ row.daily_total = 0
               /\ row.completed_date = toDateStr(now)

\* C12 (SpecRace): however concurrent check-ins of a boolean habit
\* interleave, habit_logs holds at most one row per (habit, day), so the
\* day's total is absent or exactly 1.
C12_OneRowPerHabitAndDay ==
    \A h \in habits :
        h.type = "boolean" =>
            /\ \A r \in LogsOf(habit_logs, h.id) : CopiesIn(r, habit_logs) <= 1
            /\ \A row \in DailyTotals(habit_logs, h.id) : row.daily_total = 1

\* A counter habit's total of day d.
CounterTotal(logs, id, d) ==
    SumValues(logs, {r \in LogsOf(logs, id) : r.completed_date = d})

\* C13 (Spec): every habit_logs row of a counter habit has a value > 0, and
\* no accepted /log request makes a counter habit's total of a day smaller.
C13_CounterLogsPositive ==
    /\ [](\A h \in habits :
            h.type = "counter" =>
                \A r \in LogsOf(habit_logs, h.id) : r.value > 0)
    /\ [][(response'.op = "log" /\ response'.status = 200) =>
              \A h \in habits :
                  h.type = "counter" =>
                      \A d \in FirstDay .. LastDay :
                          CounterTotal(habit_logs', h.id, d)
                              >= CounterTotal(habit_logs, h.id, d)]_vars

\* Habit id exists and belongs to a user other than u.
OwnedByOther(u, id) == \E h \in habits : h.id = id /\ h.user_id # u

\* C14 (Spec): DELETE, /checkin and /log of user u on a habit of another
\* user answer 404 and leave habits and habit_logs as they are; GET /habits
\* of u returns only habits u owns; /checkin on a counter or gauge habit and
\* /log on a boolean habit answer 400 and leave habit_logs as it is.
C14_UsersIsolated ==
    [][\A u \in Users :
          /\ \A id \in 1 .. MaxHabits :
                 /\ (OwnedByOther(u, id) /\ DeleteHabit(u, id))
                        => /\ response'.status = 404
                           /\ UNCHANGED <<habits, habit_logs>>
                 /\ (OwnedByOther(u, id) /\ Checkin(u, id))
                        => /\ response'.status = 404
                           /\ UNCHANGED <<habits, habit_logs>>
                 /\ \A v \in LogValues :
                        (OwnedByOther(u, id) /\ Log(u, id, v))
                            => /\ response'.status = 404
                               /\ UNCHANGED <<habits, habit_logs>>
                 /\ \A h \in {x \in habits : x.id = id /\ x.user_id = u} :
                        /\ (h.type # "boolean" /\ Checkin(u, id))
                               => /\ response'.status = 400
                                  /\ UNCHANGED habit_logs
                        /\ \A v \in LogValues :
                               (h.type = "boolean" /\ Log(u, id, v))
                                   => /\ response'.status = 400
                                      /\ UNCHANGED habit_logs
          /\ (response'.op = "getHabits" /\ GetHabits(u)) =>
                 \A i \in DOMAIN response'.habits :
                     \E h \in habits : /\ h.id = response'.habits[i].id
                                        /\ h.user_id = u]_vars

\* C14 witness: every habit id of the model is taken, one habit by each
\* user, so the /log request just answered 404 named a habit of another
\* user; that habit's log is still there.
C14_Witness ==
    /\ response.op = "log"
    /\ response.status = 404
    /\ {h.id : h \in habits} = 1 .. MaxHabits
    /\ {h.user_id : h \in habits} = Users
    /\ habit_logs # EmptyBag

=============================================================================
